---- MODULE Spec2Model ----
(***************************************************************************)
(* Model of langflow/middleware.py:                                        *)
(*   ContentSizeLimitMiddleware  - the body size guard around receive()    *)
(*   OriginValidationMiddleware  - the origin gate around call_next()      *)
(***************************************************************************)
EXTENDS Integers, Sequences, FiniteSets, TLC

VARIABLES
    \* ---- ContentSizeLimitMiddleware ----
    settings,        \* get_settings_service().settings.max_file_size_upload
    scope,           \* scope["type"] of each request, "none" before __call__
    pc,              \* where the application of each request stands
    limAtCall,       \* inner()'s local max_file_size_upload while it awaits
    received,        \* the closure cells `received`, one per receive_wrapper call
    returned,        \* messages the application got back from its receive
    incoming,        \* history: messages the transport handed out, per request
    log,             \* history: one entry per finished inner() call, per request
    cfgAtCall,       \* history: the setting at the moment inner() was called
    changedInAwait,  \* history: the setting changed while inner() was awaiting
    \* ---- OriginValidationMiddleware ----
    env,             \* os.environ entry ALLOWED_ORIGINS
    allowed_origins, \* self.allowed_origins
    request,         \* the request of the last dispatch
    origin,          \* dispatch's local `origin`
    decision,        \* which return statement of dispatch was taken
    nextCalls,       \* number of call_next(request) calls of the last dispatch
    response         \* what the last dispatch returned

guardVars == <<settings, scope, pc, limAtCall, received, returned, incoming,
               log, cfgAtCall, changedInAwait>>
gateVars == <<env, allowed_origins, request, origin, decision, nextCalls, response>>
vars == <<guardVars, gateVars>>

----------------------------------------------------------------------------
(* Bounds *)

\* inner() calls over all requests together
MaxReads == 3

----------------------------------------------------------------------------
(* Optional values: None is the empty set, a value v is {v} *)

None == {}
Some(v) == {v}
Val(o) == CHOOSE v \in o : TRUE

----------------------------------------------------------------------------
(* ContentSizeLimitMiddleware *)

Requests == {"r1", "r2"}

ScopeTypes == {"http", "websocket"}

\* body sizes the transport delivers
BodyLens == {512 * 1024, 1024 * 1024}

\* values of the max_file_size_upload setting (megabytes, or None)
Limits == {None, Some(1), Some(2)}

\* an ASGI message: its "type" and, when the key is there, the length of "body"
HttpMessages ==
    {[type |-> "http.request", body |-> Some(n)] : n \in BodyLens}
      \cup {[type |-> "http.request", body |-> None],
            [type |-> "http.disconnect", body |-> None]}

WsMessages == {[type |-> "websocket.receive", body |-> None]}

MessagesOf(r) == IF scope[r] = "http" THEN HttpMessages ELSE WsMessages

\* len(message.get("body", b""))
BodyLen(message) == IF message.body = None THEN 0 ELSE Val(message.body)

LookupLimitCached(r) == IF log[r] # <<>> THEN log[r][1].lim ELSE settings

LookupLimitDefault(r) == IF settings = None THEN Some(1) ELSE settings

\* get_settings_service().settings.max_file_size_upload, at the top of inner()
LookupLimit(r) == settings

\* the early return of inner()
PassThrough(message, lim) == message.type # "http.request" \/ lim = None

AddBodyAssign(count, body_len) == body_len

\* received += body_len
AddBody(count, body_len) == count + body_len

ExceedsGe(count, lim) == count >= Val(lim) * 1024 * 1024

ExceedsKB(count, lim) == count > Val(lim) * 1024

\* received > max_file_size_upload * 1024 * 1024
Exceeds(count, lim) == count > Val(lim) * 1024 * 1024

CounterCellShared(r) == "r1"

\* receive_wrapper(receive) makes a new `received` for the request it wraps
CounterCell(r) == r

Wrapped(r) == scope[r] = "http"

ReadsDone == Len(log["r1"]) + Len(log["r2"])

ReadsPending == Cardinality({r \in Requests : pc[r] = "awaiting"})

\* the settings service changes the value at run time
SetSetting(v) ==
    /\ v # settings
    /\ settings' = v
    /\ changedInAwait' = [r \in Requests |-> changedInAwait[r] \/ pc[r] = "awaiting"]
    /\ UNCHANGED <<scope, pc, limAtCall, received, returned, incoming, log, cfgAtCall>>
    /\ UNCHANGED gateVars

\* __call__(scope, receive, send)
Call(r, type) ==
    /\ pc[r] = "new"
    /\ scope' = [scope EXCEPT ![r] = type]
    /\ pc' = [pc EXCEPT ![r] = "idle"]
    /\ received' = IF type = "http"
                   THEN [received EXCEPT ![CounterCell(r)] = 0]
                   ELSE received
    /\ UNCHANGED <<settings, limAtCall, returned, incoming, log, cfgAtCall, changedInAwait>>
    /\ UNCHANGED gateVars

\* a non-http application reads from the receive it was given, which is the
\* transport's own
RawReceive(r, message) ==
    /\ pc[r] = "idle"
    /\ ~Wrapped(r)
    /\ Len(incoming[r]) < MaxReads
    /\ incoming' = [incoming EXCEPT ![r] = Append(@, message)]
    /\ returned' = [returned EXCEPT ![r] = Append(@, message)]
    /\ UNCHANGED <<settings, scope, pc, limAtCall, received, log, cfgAtCall, changedInAwait>>
    /\ UNCHANGED gateVars

\* the application calls the wrapper: inner() runs up to `await receive()`
InnerCall(r) ==
    /\ pc[r] = "idle"
    /\ Wrapped(r)
    /\ ReadsDone + ReadsPending < MaxReads
    /\ limAtCall' = [limAtCall EXCEPT ![r] = LookupLimit(r)]
    /\ cfgAtCall' = [cfgAtCall EXCEPT ![r] = settings]
    /\ changedInAwait' = [changedInAwait EXCEPT ![r] = FALSE]
    /\ pc' = [pc EXCEPT ![r] = "awaiting"]
    /\ UNCHANGED <<settings, scope, received, returned, incoming, log>>
    /\ UNCHANGED gateVars

\* receive() delivers `message`: inner() runs from there to its return or raise
InnerResume(r, message) ==
    /\ pc[r] = "awaiting"
    /\ LET lim == limAtCall[r]
           cell == CounterCell(r)
           count == AddBody(received[cell], BodyLen(message))
           pass == PassThrough(message, lim)
           raise == ~pass /\ Exceeds(count, lim)
       IN  /\ received' = IF pass THEN received ELSE [received EXCEPT ![cell] = count]
           /\ returned' = IF raise THEN returned
                          ELSE [returned EXCEPT ![r] = Append(@, message)]
           /\ log' = [log EXCEPT ![r] =
                        Append(@, [msg |-> message, lim |-> lim, cfg |-> cfgAtCall[r],
                                   raised |-> raise])]
    /\ incoming' = [incoming EXCEPT ![r] = Append(@, message)]
    /\ pc' = [pc EXCEPT ![r] = "idle"]
    /\ UNCHANGED <<settings, scope, limAtCall, cfgAtCall, changedInAwait>>
    /\ UNCHANGED gateVars

\* ContentSizeLimitMiddleware(app), no request yet, the setting being s
GuardInit(s) ==
    /\ settings = s
    /\ scope = [r \in Requests |-> "none"]
    /\ pc = [r \in Requests |-> "new"]
    /\ limAtCall = [r \in Requests |-> None]
    /\ received = [r \in Requests |-> 0]
    /\ returned = [r \in Requests |-> <<>>]
    /\ incoming = [r \in Requests |-> <<>>]
    /\ log = [r \in Requests |-> <<>>]
    /\ cfgAtCall = [r \in Requests |-> None]
    /\ changedInAwait = [r \in Requests |-> FALSE]

GuardNext ==
    \/ \E v \in Limits : SetSetting(v)
    \/ \E r \in Requests, type \in ScopeTypes : Call(r, type)
    \/ \E r \in Requests : \E message \in MessagesOf(r) : RawReceive(r, message)
    \/ \E r \in Requests : InnerCall(r)
    \/ \E r \in Requests : \E message \in MessagesOf(r) : InnerResume(r, message)

----------------------------------------------------------------------------
(* OriginValidationMiddleware *)

(* Strings are sequences of one-character strings. *)

\* /health
PathHealth == <<"/", "h", "e", "a", "l", "t", "h">>

\* /docs
PathDocs == <<"/", "d", "o", "c", "s">>

\* /openapi.json
PathOpenapi == <<"/", "o", "p", "e", "n", "a", "p", "i", ".", "j", "s", "o", "n">>

\* /healthcheck
PathHealthcheck == <<"/", "h", "e", "a", "l", "t", "h", "c", "h", "e", "c", "k">>

\* /docs/oauth2-redirect
PathDocsRedirect == <<"/", "d", "o", "c", "s", "/", "o", "a", "u", "t", "h", "2", "-", "r", "e", "d", "i", "r", "e", "c", "t">>

\* /api/x
PathApi == <<"/", "a", "p", "i", "/", "x">>

\* /heal
PathHeal == <<"/", "h", "e", "a", "l">>

\* https://example.com
OriginExample == <<"h", "t", "t", "p", "s", ":", "/", "/", "e", "x", "a", "m", "p", "l", "e", ".", "c", "o", "m">>

\* https://example.com/app
OriginExampleApp == <<"h", "t", "t", "p", "s", ":", "/", "/", "e", "x", "a", "m", "p", "l", "e", ".", "c", "o", "m", "/", "a", "p", "p">>

\* https://example.com.evil.com
OriginExampleEvil == <<"h", "t", "t", "p", "s", ":", "/", "/", "e", "x", "a", "m", "p", "l", "e", ".", "c", "o", "m", ".", "e", "v", "i", "l", ".", "c", "o", "m">>

\* https://evil.com
OriginEvil == <<"h", "t", "t", "p", "s", ":", "/", "/", "e", "v", "i", "l", ".", "c", "o", "m">>

\* https://app.example.org
OriginOrg == <<"h", "t", "t", "p", "s", ":", "/", "/", "a", "p", "p", ".", "e", "x", "a", "m", "p", "l", "e", ".", "o", "r", "g">>

\* ",,"
EnvCommas == <<",", ",">>

\* " , ,\t "
EnvBlank == <<" ", ",", " ", ",", "\t", " ">>

\* "https://example.com"
EnvOne == OriginExample

\* " https://example.com , https://app.example.org,"
EnvTwo == <<" ">> \o OriginExample \o <<" ", ",", " ">> \o OriginOrg \o <<",">>

\* ",https://app.example.org"
EnvOrgOnly == <<",">> \o OriginOrg

\* the environment: ALLOWED_ORIGINS unset (None) or set to a string
Envs == {None, Some(<<>>), Some(EnvCommas), Some(EnvBlank), Some(EnvOne),
         Some(EnvTwo), Some(EnvOrgOnly)}

Paths == {PathHealth, PathDocs, PathOpenapi, PathHealthcheck, PathDocsRedirect,
          PathApi, PathHeal}

HeaderValues == {<<>>, OriginExample, OriginExampleApp, OriginExampleEvil,
                 OriginEvil, OriginOrg}

\* request.headers: the keys that are there, each with its value
HeaderMaps == UNION {[S -> HeaderValues] : S \in SUBSET {"origin", "referer"}}

HttpRequests == [path : Paths, headers : HeaderMaps]

\* what the rest of the application answers
NextResponses == {[source |-> "next", status |-> 200, detail |-> ""],
                  [source |-> "next", status |-> 401, detail |-> "Not authenticated"]}

\* JSONResponse(status_code=401, content={"detail": "Direct access not allowed"})
Rejection == [source |-> "gate", status |-> 401, detail |-> "Direct access not allowed"]

Whitespace == {" ", "\t"}

\* os.getenv("ALLOWED_ORIGINS", "")
Getenv(e) == IF e = None THEN <<>> ELSE Val(e)

RECURSIVE Split(_)
\* str.split(",")
Split(s) ==
    IF \E i \in 1..Len(s) : s[i] = ","
    THEN LET i == CHOOSE k \in 1..Len(s) :
                      s[k] = "," /\ \A j \in 1..(k - 1) : s[j] # ","
         IN  <<SubSeq(s, 1, i - 1)>> \o Split(SubSeq(s, i + 1, Len(s)))
    ELSE <<s>>

RECURSIVE Strip(_)
\* str.strip()
Strip(s) ==
    IF s = <<>> THEN s
    ELSE IF s[1] \in Whitespace THEN Strip(Tail(s))
    ELSE IF s[Len(s)] \in Whitespace THEN Strip(SubSeq(s, 1, Len(s) - 1))
    ELSE s

RECURSIVE StripAll(_)
StripAll(parts) ==
    IF parts = <<>> THEN <<>>
    ELSE (IF Strip(Head(parts)) # <<>> THEN <<Strip(Head(parts))>> ELSE <<>>)
           \o StripAll(Tail(parts))

RECURSIVE StripAllKeepBlank(_)
StripAllKeepBlank(parts) ==
    IF parts = <<>> THEN <<>>
    ELSE (IF Head(parts) # <<>> THEN <<Strip(Head(parts))>> ELSE <<>>)
           \o StripAllKeepBlank(Tail(parts))

ParseAllowedOriginsKeepBlank(value) == StripAllKeepBlank(Split(value))

\* [origin.strip() for origin in allowed_origins_env.split(",") if origin.strip()]
ParseAllowedOrigins(value) == StripAll(Split(value))

\* self.bypass_paths
bypass_paths == <<PathHealth, PathDocs, PathOpenapi>>

\* str.startswith
StartsWith(s, prefix) ==
    /\ Len(prefix) <= Len(s)
    /\ SubSeq(s, 1, Len(prefix)) = prefix

IsBypassExact(path) == \E i \in 1..Len(bypass_paths) : path = bypass_paths[i]

\* any(request.url.path.startswith(path) for path in self.bypass_paths)
IsBypass(path) == \E i \in 1..Len(bypass_paths) : StartsWith(path, bypass_paths[i])

\* request.headers.get("origin") or request.headers.get("referer", "")
ExtractOrigin(headers) ==
    IF "origin" \in DOMAIN headers /\ headers["origin"] # <<>>
    THEN headers["origin"]
    ELSE IF "referer" \in DOMAIN headers THEN headers["referer"] ELSE <<>>

IsOriginAllowedExact(o, allowed) ==
    IF o = <<>> THEN FALSE
    ELSE \E i \in 1..Len(allowed) : o = allowed[i]

\* _is_origin_allowed
IsOriginAllowed(o, allowed) ==
    IF o = <<>> THEN FALSE
    ELSE \E i \in 1..Len(allowed) : StartsWith(o, allowed[i])

\* OriginValidationMiddleware.__init__ with the environment e
GateInitWith(e) ==
    /\ env = e
    /\ allowed_origins = ParseAllowedOrigins(Getenv(e))
    /\ request = [path |-> <<>>, headers |-> <<>>]
    /\ origin = <<>>
    /\ decision = "none"
    /\ nextCalls = 0
    /\ response = [source |-> "none", status |-> 0, detail |-> ""]

\* dispatch(request, call_next); `answer` is what call_next would return
dispatch(req, answer) ==
    /\ request' = req
    /\ IF allowed_origins = <<>>
       THEN /\ decision' = "disabled"
            /\ origin' = <<>>
            /\ nextCalls' = 1
            /\ response' = answer
       ELSE IF IsBypass(req.path)
       THEN /\ decision' = "bypass"
            /\ origin' = <<>>
            /\ nextCalls' = 1
            /\ response' = answer
       ELSE LET o == ExtractOrigin(req.headers)
            IN  /\ origin' = o
                /\ IF ~IsOriginAllowed(o, allowed_origins)
                   THEN /\ decision' = "rejected"
                        /\ nextCalls' = 0
                        /\ response' = Rejection
                   ELSE /\ decision' = "allowed"
                        /\ nextCalls' = 1
                        /\ response' = answer
    /\ UNCHANGED <<env, allowed_origins>>
    /\ UNCHANGED guardVars

GateNext == \E req \in HttpRequests, answer \in NextResponses : dispatch(req, answer)

\* the guard under any setting, next to a gate built with ALLOWED_ORIGINS unset
InitGuard == \E s \in Limits : GuardInit(s) /\ GateInitWith(None)

SpecGuard == InitGuard /\ [][GuardNext]_vars

\* the gate under any environment, next to a guard that handles no request
InitGate == \E e \in Envs : GuardInit(None) /\ GateInitWith(e)

SpecGate == InitGate /\ [][GateNext]_vars

----------------------------------------------------------------------------
(* Properties of ContentSizeLimitMiddleware *)

MB == 1024 * 1024

NumericLimits == {Val(l) : l \in Limits \ {None}}

\* the log entry of the i-th finished inner() call of request r
Entry(r, i) == log[r][i]

\* the entry was counted: a body message read while a limit was configured
Counted(e) == e.msg.type = "http.request" /\ e.cfg # None

RECURSIVE CountedSum(_)
\* body bytes of the counted entries of a log
CountedSum(entries) ==
    IF entries = <<>> THEN 0
    ELSE CountedSum(SubSeq(entries, 1, Len(entries) - 1))
           + (IF Counted(entries[Len(entries)])
              THEN BodyLen(entries[Len(entries)].msg) ELSE 0)

RECURSIVE BodyBytes(_)
\* body bytes of all http.request messages of a log
BodyBytes(entries) ==
    IF entries = <<>> THEN 0
    ELSE BodyBytes(SubSeq(entries, 1, Len(entries) - 1))
           + (IF entries[Len(entries)].msg.type = "http.request"
              THEN BodyLen(entries[Len(entries)].msg) ELSE 0)

Prefix(entries, i) == SubSeq(entries, 1, i)

NoRaise(r) == \A i \in 1..Len(log[r]) : ~Entry(r, i).raised

\* request r finished an inner() call in this step
Finished(r) == pc[r] = "awaiting" /\ pc'[r] = "idle"

LastEntry(r) == log'[r][Len(log'[r])]

\* C1 as stated: once the size-limit error was raised for a request, no later
\* read through its wrapper returns a message or raises again, i.e. a raise is
\* always the last finished read of its request.
C1_RaiseIsLastRead ==
    \A r \in Requests : \A i \in 1..Len(log[r]) :
        Entry(r, i).raised => i = Len(log[r])

\* C1 amended: for a request read under one configured limit L, a read raises
\* the size-limit error exactly when it reads an http.request chunk and the
\* cumulative body length up to and including that chunk exceeds
\* L * 1024 * 1024: the first raise is at the chunk where the total first
\* exceeds the threshold, and the wrapper keeps no record of having raised, so
\* a later read is processed in the same way.
C1_RaiseWhenTotalExceeds ==
    \A r \in Requests : \A L \in NumericLimits :
        (Wrapped(r) /\ \A i \in 1..Len(log[r]) : Entry(r, i).cfg = Some(L))
        => \A i \in 1..Len(log[r]) :
              Entry(r, i).raised <=>
                  /\ Entry(r, i).msg.type = "http.request"
                  /\ BodyBytes(Prefix(log[r], i)) > L * MB

\* a request under the limit 1 whose first chunk is accepted, whose second
\* raises and whose third, read after the raise, raises again
C1_Witness ==
    /\ Len(log["r1"]) = 3
    /\ \A i \in 1..3 : Entry("r1", i).cfg = Some(1)
    /\ ~Entry("r1", 1).raised
    /\ Entry("r1", 2).raised
    /\ Entry("r1", 3).raised

\* C2: when the cumulative body length of a request is at most the configured
\* limit * 1024 * 1024 at each of its reads (equality included), no read
\* raises and the application got back every message, unchanged and in order.
C2_WithinLimitForwardsAll ==
    \A r \in Requests :
        (/\ Wrapped(r)
         /\ \A i \in 1..Len(log[r]) :
               /\ Entry(r, i).cfg # None
               /\ BodyBytes(log[r]) <= Val(Entry(r, i).cfg) * MB)
        => /\ NoRaise(r)
           /\ returned[r] = incoming[r]

\* two chunks that add up to exactly 1 MB under the limit 1, both returned
C2_Witness ==
    /\ Len(log["r1"]) = 2
    /\ \A i \in 1..2 : Entry("r1", i).cfg = Some(1) /\ BodyLen(Entry("r1", i).msg) > 0
    /\ BodyBytes(log["r1"]) = 1 * MB
    /\ Len(returned["r1"]) = 2

\* C7: under any interleaving of the reads of the requests, the counter of a
\* request is the sum of its own counted chunks, and each of its reads raises
\* exactly when its own counted total exceeds the limit of that read.
C7_CounterPerRequest ==
    \A r \in Requests :
        Wrapped(r) =>
            /\ received[r] = CountedSum(log[r])
            /\ \A i \in 1..Len(log[r]) :
                  Entry(r, i).raised <=>
                      /\ Counted(Entry(r, i))
                      /\ CountedSum(Prefix(log[r], i)) > Val(Entry(r, i).cfg) * MB

\* two http requests in flight, both with counted bytes, one over the limit
\* and one not
C7_Witness ==
    /\ Wrapped("r1") /\ Wrapped("r2")
    /\ received["r1"] > 0 /\ received["r2"] > 0
    /\ \E i \in 1..Len(log["r1"]) : Entry("r1", i).raised
    /\ NoRaise("r2")

C9_UnlimitedNeverRaises ==
    \A r \in Requests :
        (Wrapped(r) /\ \A i \in 1..Len(log[r]) : Entry(r, i).cfg = None)
        => /\ NoRaise(r)
           /\ returned[r] = incoming[r]

\* three chunks, more than the largest limit in all, read with no limit
C9_Witness ==
    /\ Len(log["r1"]) = 3
    /\ \A i \in 1..3 : Entry("r1", i).cfg = None
    /\ \A L \in NumericLimits : BodyBytes(log["r1"]) > L * MB
    /\ Len(returned["r1"]) = 3

\* C10: a step changes the counter of a request only by finishing a read of an
\* http.request message that was called while a limit was configured, and then
\* by the length of that message's body.
C10_CounterFrame ==
    [][\A r \in Requests :
          received'[r] - received[r] =
              IF Finished(r) /\ Counted(LastEntry(r))
              THEN BodyLen(LastEntry(r).msg)
              ELSE 0]_vars

\* a chunk read with no limit, then a limit configured and a second chunk read:
\* the counter holds the second chunk only
C10_Witness ==
    /\ Len(log["r1"]) = 2
    /\ Entry("r1", 1).cfg = None /\ BodyLen(Entry("r1", 1).msg) > 0
    /\ Entry("r1", 2).cfg # None /\ BodyLen(Entry("r1", 2).msg) > 0
    /\ received["r1"] = BodyLen(Entry("r1", 2).msg)

----------------------------------------------------------------------------
(* Properties of OriginValidationMiddleware *)

\* p is a prefix of s
IsPrefix(p, s) == Len(p) <= Len(s) /\ \A i \in 1..Len(p) : s[i] = p[i]

Dispatched == decision # "none"

Forwarded == nextCalls = 1 /\ response \in NextResponses

OnBypassPath ==
    \E p \in {PathHealth, PathDocs, PathOpenapi} : IsPrefix(p, request.path)

\* the value is made of commas and whitespace only
OnlyCommasAndWhitespace(s) == \A i \in 1..Len(s) : s[i] \in {",", " ", "\t"}

\* C3: with a non-empty allow-list and a path that starts with no bypass
\* prefix, the request is forwarded if and only if the extracted origin is
\* non-empty and starts with an allow-list entry; otherwise the answer is the
\* 401 with detail "Direct access not allowed" and call_next is not called.
C3_ForwardIffOriginAllowed ==
    (Dispatched /\ allowed_origins # <<>> /\ ~OnBypassPath)
    => IF origin # <<>> /\ \E i \in 1..Len(allowed_origins) :
                               IsPrefix(allowed_origins[i], origin)
       THEN Forwarded
       ELSE /\ response = [source |-> "gate", status |-> 401,
                           detail |-> "Direct access not allowed"]
            /\ nextCalls = 0

\* /api/x with Origin https://example.com/app is forwarded by prefix match
C3_Witness ==
    /\ Dispatched /\ allowed_origins = <<OriginExample>>
    /\ request.path = PathApi
    /\ origin = OriginExampleApp
    /\ Forwarded

\* C4 as stated: the value checked is the Origin header whenever the request
\* carries one, else the Referer header, else the empty string.
C4_OriginHeaderWhenPresent ==
    decision \in {"allowed", "rejected"}
    => origin = IF "origin" \in DOMAIN request.headers
                THEN request.headers["origin"]
                ELSE IF "referer" \in DOMAIN request.headers
                THEN request.headers["referer"]
                ELSE <<>>

\* C5: when ALLOWED_ORIGINS is unset, empty or made of commas and whitespace
\* only, the allow-list is empty and every request is forwarded, with one
\* call of call_next and no answer of the gate's own.
C5_EmptyAllowListForwardsAll ==
    (env = None \/ OnlyCommasAndWhitespace(Getenv(env)))
    => /\ allowed_origins = <<>>
       /\ Dispatched => Forwarded

\* ALLOWED_ORIGINS of commas and blanks, a request to /api/x from a foreign
\* origin, forwarded
C5_Witness ==
    /\ env = Some(EnvBlank)
    /\ Dispatched
    /\ request.path = PathApi
    /\ "origin" \in DOMAIN request.headers
    /\ request.headers["origin"] = OriginEvil
    /\ Forwarded

\* C6: with a non-empty allow-list, a request whose path starts with a bypass
\* prefix is forwarded whatever its Origin and Referer headers are.
C6_BypassWins ==
    (Dispatched /\ allowed_origins # <<>> /\ OnBypassPath) => Forwarded

\* /healthcheck, which only starts with /health, from an origin that matches no
\* entry of the allow-list, forwarded
C6_Witness ==
    /\ Dispatched /\ allowed_origins = <<OriginExample>>
    /\ request.path = PathHealthcheck
    /\ "origin" \in DOMAIN request.headers
    /\ request.headers["origin"] = OriginEvil
    /\ Forwarded

====
